---- MODULE Spec2Model ----
(***************************************************************************)
(* Model of the Gemini minutes generator: the GeminiClient of              *)
(* gemini_node.py (construction, test_connection, generate_meeting_minutes *)
(* with its cleaning and fallback steps) and the Streamlit script of       *)
(* gemini_app.py (transcript selection, the generate button, the failure   *)
(* test on the returned summary, the session record and markdown export).  *)
(*                                                                         *)
(* Text is a sequence of one-character strings, so that str(), strip(),    *)
(* the "in" substring test and the joins of the source are computed on     *)
(* characters.  A code point outside ASCII is written "U+XXXX" and counts  *)
(* as one character.                                                       *)
(***************************************************************************)
EXTENDS Naturals, Sequences, FiniteSets, TLC

VARIABLES
    raw,            \* pure functions: the parsed JSON value handed to _clean_minutes
    cleaned,        \* pure functions: outcome of _clean_minutes(raw)
    recleaned,      \* pure functions: outcome of _clean_minutes on cleaned's record
    markdown,       \* pure functions: text of format_minutes_as_markdown
    env_key,        \* process environment: GOOGLE_API_KEY, None or a text
    constructed,    \* client: __init__ has run
    constructedWith, \* client: the api_key argument and configure outcome __init__ met
    model,          \* client: self.model is set (the handle is initialized)
    last_error,     \* client: self.last_error, None or a text
    networkCalls,   \* client: calls made to model.generate_content so far
    result,         \* client: what the last public operation gave its caller
    pc,             \* app: per session, position of the script run
    final_transcript, \* app: per session, the transcript chosen by the current run
    uploaded,       \* app: per session, whether the current run had an uploaded file
    minutes,        \* app: per session, the record returned to the pending request
    written,        \* app: per session, self.last_error as the pending request's call left it
    reported,       \* app: per session, outcome shown by the last completed request
    session_state,  \* app: per session, st.session_state.minutes, None or a record
    shown           \* app: per session, the record in the review/export view

vars == << raw, cleaned, recleaned, markdown, env_key, constructed, constructedWith, model,
           last_error, networkCalls, result, pc, final_transcript, uploaded,
           minutes, written, reported, session_state, shown >>

pureVars == << raw, cleaned, recleaned, markdown >>
clientVars == << env_key, constructed, constructedWith, model, last_error, networkCalls, result >>
appVars == << pc, final_transcript, uploaded, minutes, written, reported,
              session_state, shown >>

-----------------------------------------------------------------------------
(* Literals of the source *)

FallbackSummary ==
    << "C", "o", "u", "l", "d", " ", "n", "o", "t", " ", "a", "u", "t", "o", "m", "a", "t",
       "i", "c", "a", "l", "l", "y", " ", "g", "e", "n", "e", "r", "a", "t", "e", " ", "m",
       "i", "n", "u", "t", "e", "s", ".", " ", "M", "a", "n", "u", "a", "l", " ", "r", "e",
       "v", "i", "e", "w", " ", "r", "e", "q", "u", "i", "r", "e", "d", "." >>
NoSummary ==
    << "N", "o", " ", "s", "u", "m", "m", "a", "r", "y", " ", "a", "v", "a", "i", "l", "a",
       "b", "l", "e", "." >>
FailureMarker ==
    << "C", "o", "u", "l", "d", " ", "n", "o", "t", " ", "a", "u", "t", "o", "m", "a", "t",
       "i", "c", "a", "l", "l", "y", " ", "g", "e", "n", "e", "r", "a", "t", "e", " ", "m",
       "i", "n", "u", "t", "e", "s" >>
KeySummary ==
    << "s", "u", "m", "m", "a", "r", "y" >>
KeyParticipants ==
    << "p", "a", "r", "t", "i", "c", "i", "p", "a", "n", "t", "s" >>
KeyDiscussionPoints ==
    << "d", "i", "s", "c", "u", "s", "s", "i", "o", "n", "_", "p", "o", "i", "n", "t", "s" >>
KeyOutcomes ==
    << "o", "u", "t", "c", "o", "m", "e", "s", "_", "o", "r", "_", "d", "e", "c", "i", "s",
       "i", "o", "n", "s" >>
KeyNextSteps ==
    << "n", "e", "x", "t", "_", "s", "t", "e", "p", "s" >>
MissingKeyError ==
    << "G", "O", "O", "G", "L", "E", "_", "A", "P", "I", "_", "K", "E", "Y", " ", "i", "s",
       " ", "m", "i", "s", "s", "i", "n", "g", " ", "o", "r", " ", "n", "o", "t", " ", "p",
       "r", "o", "v", "i", "d", "e", "d", "." >>
ConfigureFailedPrefix ==
    << "F", "a", "i", "l", "e", "d", " ", "t", "o", " ", "c", "o", "n", "f", "i", "g", "u",
       "r", "e", " ", "G", "e", "m", "i", "n", "i", " ", "c", "l", "i", "e", "n", "t", ":",
       " " >>
ConfiguredMessage ==
    << "G", "e", "m", "i", "n", "i", " ", "c", "l", "i", "e", "n", "t", " ", "c", "o", "n",
       "f", "i", "g", "u", "r", "e", "d", " ", "s", "u", "c", "c", "e", "s", "s", "f", "u",
       "l", "l", "y", "." >>
NotInitializedMessage ==
    << "C", "l", "i", "e", "n", "t", " ", "c", "o", "u", "l", "d", " ", "n", "o", "t", " ",
       "b", "e", " ", "i", "n", "i", "t", "i", "a", "l", "i", "z", "e", "d", "." >>
ApiCallFailedPrefix ==
    << "A", "P", "I", " ", "c", "a", "l", "l", " ", "f", "a", "i", "l", "e", "d", ":", " " >>
ApiCallFailed ==
    << "A", "P", "I", " ", "c", "a", "l", "l", " ", "f", "a", "i", "l", "e", "d" >>
FinishReasonSep ==
    << " ", "|", " ", "F", "i", "n", "i", "s", "h", " ", "R", "e", "a", "s", "o", "n", ":",
       " " >>
SafetyRatingsSep ==
    << " ", "|", " ", "S", "a", "f", "e", "t", "y", " ", "R", "a", "t", "i", "n", "g", "s",
       ":", " " >>
NoErrorText ==
    << "T", "h", "e", " ", "A", "I", " ", "c", "o", "u", "l", "d", " ", "n", "o", "t", " ",
       "p", "r", "o", "c", "e", "s", "s", " ", "t", "h", "i", "s", " ", "t", "r", "a", "n",
       "s", "c", "r", "i", "p", "t", "." >>
PyNone ==
    << "N", "o", "n", "e" >>
PyTrue ==
    << "T", "r", "u", "e" >>
PyFalse ==
    << "F", "a", "l", "s", "e" >>
HeaderSummary ==
    << "#", "#", " ", "U+2728", " ", "S", "u", "m", "m", "a", "r", "y" >>
HeaderParticipants ==
    << "#", "#", " ", "U+1F465", " ", "P", "a", "r", "t", "i", "c", "i", "p", "a", "n", "t",
       "s" >>
HeaderDiscussionPoints ==
    << "#", "#", " ", "U+1F5E3", "U+FE0F", " ", "D", "i", "s", "c", "u", "s", "s", "i", "o",
       "n", " ", "P", "o", "i", "n", "t", "s" >>
HeaderOutcomes ==
    << "#", "#", " ", "U+2705", " ", "O", "u", "t", "c", "o", "m", "e", "s", " ", "o", "r",
       " ", "D", "e", "c", "i", "s", "i", "o", "n", "s" >>
HeaderNextSteps ==
    << "#", "#", " ", "U+1F680", " ", "N", "e", "x", "t", " ", "S", "t", "e", "p", "s" >>

\* None, as the value of self.last_error, self.model and a missing session key
None == [t |-> "null", v |-> << >>]

-----------------------------------------------------------------------------
(* Python values and the built-ins the source applies to them *)

\* A JSON / Python value is a record [t, v]: t the type, v the payload.  A
\* number carries its decimal text; a dict is a sequence of [k, v] pairs in
\* insertion order, keys unique.
JNull == [t |-> "null", v |-> << >>]
JNum(digits) == [t |-> "num", v |-> digits]
JBool(b) == [t |-> "bool", v |-> IF b THEN PyTrue ELSE PyFalse]
JStr(s) == [t |-> "str", v |-> s]
JList(l) == [t |-> "list", v |-> l]
JObj(pairs) == [t |-> "obj", v |-> pairs]
Pair(key, val) == [k |-> key, v |-> val]

\* characters str.strip() removes: those of str.isspace that occur in the inputs
Whitespace == {" ", "\t", "\n", "\r", "\f"}

RECURSIVE LStrip(_)
LStrip(s) ==
    IF Len(s) > 0 /\ Head(s) \in Whitespace THEN LStrip(Tail(s)) ELSE s

RECURSIVE RStrip(_)
RStrip(s) ==
    IF Len(s) > 0 /\ s[Len(s)] \in Whitespace
    THEN RStrip(SubSeq(s, 1, Len(s) - 1))
    ELSE s

\* str.strip()
Strip(s) == RStrip(LStrip(s))

\* sep.join(parts)
RECURSIVE Join(_, _)
Join(sep, parts) ==
    IF Len(parts) = 0 THEN << >>
    ELSE IF Len(parts) = 1 THEN parts[1]
    ELSE parts[1] \o sep \o Join(sep, Tail(parts))

\* str(v) and repr(v).  repr of a string is written for strings without
\* quotes, backslashes or control characters, the only ones nested in a
\* container here.
RECURSIVE PyStr(_), PyRepr(_), ReprItems(_), ReprPairs(_)
PyStr(v) ==
    CASE v.t = "str" -> v.v
      [] v.t = "null" -> PyNone
      [] v.t = "num" -> v.v
      [] v.t = "bool" -> v.v
      [] v.t = "list" -> <<"[">> \o Join(<<",", " ">>, ReprItems(v.v)) \o <<"]">>
      [] v.t = "obj" -> <<"{">> \o Join(<<",", " ">>, ReprPairs(v.v)) \o <<"}">>
PyRepr(v) == IF v.t = "str" THEN <<"'">> \o v.v \o <<"'">> ELSE PyStr(v)
ReprItems(items) ==
    IF Len(items) = 0 THEN << >>
    ELSE << PyRepr(Head(items)) >> \o ReprItems(Tail(items))
ReprPairs(pairs) ==
    IF Len(pairs) = 0 THEN << >>
    ELSE << PyRepr(JStr(Head(pairs).k)) \o <<":", " ">> \o PyRepr(Head(pairs).v) >>
         \o ReprPairs(Tail(pairs))

\* "for x in v": a list gives its elements, a string its characters, a dict
\* its keys; anything else raises TypeError
Iterable(v) == v.t \in {"list", "str", "obj"}
PyIter(v) ==
    CASE v.t = "list" -> v.v
      [] v.t = "str" -> [i \in 1..Len(v.v) |-> JStr(<< v.v[i] >>)]
      [] v.t = "obj" -> [i \in 1..Len(v.v) |-> JStr(v.v[i].k)]

\* dict.get(key, default)
HasKey(d, key) == \E i \in 1..Len(d.v) : d.v[i].k = key
Get(d, key, default) ==
    IF HasKey(d, key)
    THEN d.v[CHOOSE i \in 1..Len(d.v) : d.v[i].k = key].v
    ELSE default

\* truth value of a Python value, and "a or b"
Truthy(v) ==
    CASE v.t = "null" -> FALSE
      [] v.t = "bool" -> v.v = PyTrue
      [] v.t = "num" -> v.v # << "0" >>
      [] OTHER -> Len(v.v) > 0
PyOr(a, b) == IF Truthy(a) THEN a ELSE b

\* "needle in haystack" on strings
Contains(haystack, needle) ==
    \E i \in 0..Len(haystack) :
        /\ i + Len(needle) <= Len(haystack)
        /\ SubSeq(haystack, i + 1, i + Len(needle)) = needle

\* what a call gives its caller: a value, or an exception
Returned(v) == [raised |-> FALSE, value |-> v]
Raised(e) == [raised |-> TRUE, value |-> JStr(e)]

-----------------------------------------------------------------------------
(* gemini_node.py: cleaning and fallback *)

\* the comprehension filtering on str(p) instead of str(p).strip()
RECURSIVE UnstrippedFilterItems(_)
UnstrippedFilterItems(items) ==
    IF Len(items) = 0 THEN << >>
    ELSE LET s == PyStr(Head(items))
         IN (IF Len(s) > 0 THEN << JStr(Strip(s)) >> ELSE << >>)
            \o UnstrippedFilterItems(Tail(items))

\* [str(p).strip() for p in items if str(p).strip()]
RECURSIVE StrippedItems(_)
StrippedItems(items) ==
    IF Len(items) = 0 THEN << >>
    ELSE LET s == Strip(PyStr(Head(items)))
         IN (IF Len(s) > 0 THEN << JStr(s) >> ELSE << >>)
            \o StrippedItems(Tail(items))

CleanList(minutesDict, key) == StrippedItems(PyIter(Get(minutesDict, key, JList(<< >>))))

\* str(minutes.get("summary", "")).strip() or "No summary available."
CleanSummary(minutesDict) ==
    LET s == Strip(PyStr(Get(minutesDict, KeySummary, JStr(<< >>))))
    IN IF Len(s) > 0 THEN s ELSE NoSummary

ListKeys == << KeyParticipants, KeyDiscussionPoints, KeyOutcomes, KeyNextSteps >>

\* str(e) of the AttributeError of minutes.get on a value that is no dict, and
\* of the TypeError of iterating a value that is not iterable (the wording
\* is the interpreter's, shortened)
NoGetMessage == << "n", "o", " ", "a", "t", "t", "r", "i", "b", "u", "t", "e", " ", "'", "g", "e", "t", "'" >>
NotIterableMessage == << "n", "o", "t", " ", "i", "t", "e", "r", "a", "b", "l", "e" >>

\* GeminiClient._clean_minutes
clean_minutes(minutesValue) ==
    IF minutesValue.t # "obj" THEN Raised(NoGetMessage)
    ELSE IF \E i \in 1..Len(ListKeys) : ~Iterable(Get(minutesValue, ListKeys[i], JList(<< >>)))
    THEN Raised(NotIterableMessage)
    ELSE Returned(JObj(<<
            Pair(KeySummary, JStr(CleanSummary(minutesValue))),
            Pair(KeyParticipants, JList(CleanList(minutesValue, KeyParticipants))),
            Pair(KeyDiscussionPoints, JList(CleanList(minutesValue, KeyDiscussionPoints))),
            Pair(KeyOutcomes, JList(CleanList(minutesValue, KeyOutcomes))),
            Pair(KeyNextSteps, JList(CleanList(minutesValue, KeyNextSteps))) >>))

\* GeminiClient._create_fallback_minutes
create_fallback_minutes ==
    JObj(<< Pair(KeySummary, JStr(FallbackSummary)),
            Pair(KeyParticipants, JList(<< >>)),
            Pair(KeyDiscussionPoints, JList(<< >>)),
            Pair(KeyOutcomes, JList(<< >>)),
            Pair(KeyNextSteps, JList(<< >>)) >>)

-----------------------------------------------------------------------------
(* gemini_app.py: markdown export *)

\* "\n".join(f"- {p}" for p in minutes.get(key, []))
RECURSIVE BulletLines(_)
BulletLines(items) ==
    IF Len(items) = 0 THEN << >>
    ELSE << <<"-", " ">> \o PyStr(Head(items)) >> \o BulletLines(Tail(items))

Bullets(minutesDict, key) ==
    Join(<<"\n">>, BulletLines(PyIter(Get(minutesDict, key, JList(<< >>)))))

\* the sections of format_minutes_as_markdown: header, whether the content
\* is true for "if content", and the content as the f-string writes it
Section(header, present, content) ==
    [header |-> header, present |-> present, content |-> content]
ListSection(header, minutesDict, key) ==
    Section(header, Len(Bullets(minutesDict, key)) > 0, Bullets(minutesDict, key))
Sections(minutesDict) ==
    << Section(HeaderSummary,
               Truthy(Get(minutesDict, KeySummary, JStr(<< >>))),
               PyStr(Get(minutesDict, KeySummary, JStr(<< >>)))),
       ListSection(HeaderParticipants, minutesDict, KeyParticipants),
       ListSection(HeaderDiscussionPoints, minutesDict, KeyDiscussionPoints),
       ListSection(HeaderOutcomes, minutesDict, KeyOutcomes),
       ListSection(HeaderNextSteps, minutesDict, KeyNextSteps) >>

\* the generator without its filter: every section is written
RECURSIVE AllSectionTexts(_)
AllSectionTexts(sections) ==
    IF Len(sections) = 0 THEN << >>
    ELSE << Head(sections).header \o <<"\n">> \o Head(sections).content >>
         \o AllSectionTexts(Tail(sections))

\* f"{header}\n{content}" for header, content in sections if content
RECURSIVE SectionTexts(_)
SectionTexts(sections) ==
    IF Len(sections) = 0 THEN << >>
    ELSE (IF Head(sections).present
          THEN << Head(sections).header \o <<"\n">> \o Head(sections).content >>
          ELSE << >>)
         \o SectionTexts(Tail(sections))

\* format_minutes_as_markdown, for a dict whose list fields can be iterated
format_minutes_as_markdown(minutesDict) ==
    Join(<<"\n", "\n">>, SectionTexts(Sections(minutesDict)))

-----------------------------------------------------------------------------
(* gemini_node.py: GeminiClient *)

\* outcome of genai.configure and genai.GenerativeModel: done, or an
\* exception with its message
ConfigureOutcomes ==
    << Returned(None),
       Raised(<< "b", "a", "d", " ", "k", "e", "y" >>),
       Raised(<< >>) >>

\* GeminiClient.__init__: whether it raises, and the fields it leaves
client_init(api_key, env, configure) ==
    LET key == PyOr(api_key, env)
    IN IF ~Truthy(key)
       THEN [raised |-> FALSE, model |-> FALSE, last_error |-> JStr(MissingKeyError)]
       ELSE IF configure.raised
       THEN [raised |-> FALSE, model |-> FALSE,
             last_error |-> JStr(ConfigureFailedPrefix \o PyStr(configure.value))]
       ELSE [raised |-> FALSE, model |-> TRUE, last_error |-> None]

\* test_connection deciding by the error field instead of the handle
test_connection_by_error(hasModel, lastError) ==
    IF lastError = None
    THEN << TRUE, ConfiguredMessage >>
    ELSE << FALSE, PyStr(PyOr(lastError, JStr(NotInitializedMessage))) >>

\* GeminiClient.test_connection
test_connection(hasModel, lastError) ==
    IF hasModel
    THEN << TRUE, ConfiguredMessage >>
    ELSE << FALSE, PyStr(PyOr(lastError, JStr(NotInitializedMessage))) >>

\* json.loads on the response body: a body is the JSON value it denotes, or
\* no JSON at all
JsonBody(v) == [json |-> TRUE, value |-> v]
NotJson == [json |-> FALSE, value |-> None]
json_loads(body) ==
    IF body.json THEN Returned(body.value)
    ELSE Raised(<< "E", "x", "p", "e", "c", "t", "i", "n", "g", " ", "v", "a", "l", "u", "e" >>)

\* What model.generate_content does: call is its outcome (a response, or the
\* exception of a transport failure, and then `response` stays unbound); text
\* is the outcome of reading response.text (the body, or the exception of a
\* blocked reply); candidates are response.candidates, each with a
\* finish_reason (None: a value without .name) and the outcome of reading
\* safety_ratings.
Response(call, text, candidates) ==
    [call |-> call, text |-> text, candidates |-> candidates]
Candidate(finish, ratings) == [finish_reason |-> finish, safety_ratings |-> ratings]

\* lines 68-74: the text the inner try appends before it ends or fails
Diagnostics(response) ==
    IF response.call.raised THEN << >>
    ELSE IF Len(response.candidates) = 0 THEN << >>
    ELSE LET c == response.candidates[1]
         IN IF c.finish_reason = None THEN << >>
            ELSE FinishReasonSep \o PyStr(c.finish_reason)
                 \o (IF c.safety_ratings.raised THEN << >>
                     ELSE SafetyRatingsSep \o PyStr(c.safety_ratings.value))

\* lines 61-64, the body of the try: the record, or the exception raised
AttemptGenerate(response) ==
    IF response.call.raised THEN response.call
    ELSE IF response.text.raised THEN response.text
    ELSE LET parsed == json_loads(response.text.value)
         IN IF parsed.raised THEN parsed ELSE clean_minutes(parsed.value)

\* generate_meeting_minutes with the cleaning call placed after the try: an
\* exception of _clean_minutes reaches the caller
generate_cleaning_unguarded(hasModel, lastError, response) ==
    IF ~hasModel
    THEN [ret |-> Returned(create_fallback_minutes), last_error |-> lastError, calls |-> 0]
    ELSE LET attempt == AttemptGenerate(response)
             parsed == /\ ~response.call.raised
                       /\ ~response.text.raised
                       /\ ~json_loads(response.text.value).raised
         IN IF ~attempt.raised \/ parsed
            THEN [ret |-> attempt, last_error |-> lastError, calls |-> 1]
            ELSE [ret |-> Returned(create_fallback_minutes),
                  last_error |-> JStr(ApiCallFailedPrefix \o PyStr(attempt.value)
                                      \o Diagnostics(response)),
                  calls |-> 1]

\* generate_meeting_minutes without the early return for a missing handle
generate_without_guard(hasModel, lastError, response) ==
    LET attempt == AttemptGenerate(response)
    IN IF ~attempt.raised
       THEN [ret |-> attempt, last_error |-> lastError, calls |-> 1]
       ELSE [ret |-> Returned(create_fallback_minutes),
             last_error |-> JStr(ApiCallFailedPrefix \o PyStr(attempt.value)
                                 \o Diagnostics(response)),
             calls |-> 1]

\* GeminiClient.generate_meeting_minutes: what it returns (or raises), the
\* last_error it leaves and the remote calls it made
generate_meeting_minutes(hasModel, lastError, response) ==
    IF ~hasModel
    THEN [ret |-> Returned(create_fallback_minutes), last_error |-> lastError, calls |-> 0]
    ELSE LET attempt == AttemptGenerate(response)
         IN IF ~attempt.raised
            THEN [ret |-> attempt, last_error |-> lastError, calls |-> 1]
            ELSE [ret |-> Returned(create_fallback_minutes),
                  last_error |-> JStr(ApiCallFailedPrefix \o PyStr(attempt.value)
                                      \o Diagnostics(response)),
                  calls |-> 1]

-----------------------------------------------------------------------------
(* Inputs of the client's operations *)

\* cap on the remote calls of one behaviour
MaxCalls == 2

Text_k == << "k" >>
Text_Ana == << " ", "A", "n", "a", " " >>
Text_Leo == << "L", "e", "o" >>
Text_Plan == << " ", "P", "l", "a", "n", " ", "o", "k", ".", " " >>
Text_Q4 == << "Q", "4", " ", "s", "h", "i", "p", "s" >>

\* api_key argument and GOOGLE_API_KEY: absent, empty, or a key
KeyChoices == << None, JStr(<< >>), JStr(Text_k) >>

Transcripts == << << >>, << " " >>, << "h", "i" >> >>

\* JSON values a well-formed reply can carry
MinutesPlan ==
    JObj(<< Pair(KeySummary, JStr(Text_Plan)),
            Pair(KeyParticipants, JList(<< JStr(Text_Ana), JStr(<< >>), JStr(Text_Leo) >>)),
            Pair(KeyNextSteps, JList(<< JNum(<< "7" >>) >>)) >>)
MinutesQ4 ==
    JObj(<< Pair(KeySummary, JStr(Text_Q4)),
            Pair(KeyDiscussionPoints, JList(<< JStr(Text_Leo) >>)) >>)
MinutesEmpty == JObj(<< >>)
\* a reply whose summary quotes the failure text inside a longer sentence
MinutesQuoting ==
    JObj(<< Pair(KeySummary, JStr(Text_Leo \o << ":", " " >> \o FailureMarker \o << "!" >>)),
            Pair(KeyParticipants, JList(<< JStr(Text_Leo) >>)) >>)
\* JSON objects on which cleaning fails
MinutesNullList == JObj(<< Pair(KeySummary, JStr(Text_Q4)), Pair(KeyParticipants, JNull) >>)
MinutesNumberList == JObj(<< Pair(KeyNextSteps, JNum(<< "5" >>)) >>)

JsonValues ==
    << MinutesPlan, MinutesQ4, MinutesEmpty, MinutesQuoting, MinutesNullList,
       MinutesNumberList, JList(<< JStr(Text_Leo) >>), JStr(Text_Leo), JNull,
       JNum(<< "4", "2" >>) >>

Text_STOP == << "S", "T", "O", "P" >>
Text_SAFETY == << "S", "A", "F", "E", "T", "Y" >>
Text_ratings == << "[", "]" >>
Text_timeout == << "t", "i", "m", "e", "o", "u", "t" >>
Text_blocked == << "b", "l", "o", "c", "k", "e", "d" >>
Text_noattr == << "n", "o", " ", "a", "t", "t", "r" >>

\* response.candidates: none, a full candidate, one whose finish_reason has no
\* .name, one whose safety_ratings cannot be read
CandidateShapes ==
    << << >>,
       << Candidate(JStr(Text_STOP), Returned(JStr(Text_ratings))) >>,
       << Candidate(None, Returned(JStr(Text_ratings))) >>,
       << Candidate(JStr(Text_SAFETY), Raised(Text_noattr)) >> >>

\* the replies of the remote model
TransportErrors ==
    { Response(Raised(e), Returned(NotJson), << >>) : e \in { Text_timeout, << >> } }
BlockedReplies ==
    { Response(Returned(None), Raised(Text_blocked), CandidateShapes[i]) :
        i \in 1..Len(CandidateShapes) }
NonJsonReplies ==
    { Response(Returned(None), Returned(NotJson), CandidateShapes[i]) : i \in 1..2 }
JsonReplies ==
    { Response(Returned(None), Returned(JsonBody(JsonValues[i])), CandidateShapes[2]) :
        i \in 1..Len(JsonValues) }
Responses == TransportErrors \cup BlockedReplies \cup NonJsonReplies \cup JsonReplies

-----------------------------------------------------------------------------
(* The client's public operations, called by any caller *)

OpResult(op, ret, calls, transcript, response) ==
    [op |-> op, ret |-> ret, calls |-> calls, transcript |-> transcript,
     response |-> response]

Construct(api_key, configure) ==
    /\ ~constructed
    /\ LET c == client_init(api_key, env_key, configure)
       IN /\ model' = c.model
          /\ last_error' = c.last_error
          /\ result' = OpResult("init", IF c.raised THEN Raised(<< >>) ELSE Returned(None),
                                0, None, None)
    /\ constructed' = TRUE
    /\ constructedWith' = [api_key |-> api_key, configure |-> configure]
    /\ UNCHANGED << env_key, networkCalls >>

TestConnection ==
    /\ constructed
    /\ result' = OpResult("test_connection",
                          Returned(test_connection(model, last_error)), 0, None, None)
    /\ UNCHANGED << env_key, constructed, constructedWith, model, last_error,
                    networkCalls >>

GenerateMeetingMinutes(transcript, response) ==
    /\ constructed
    /\ networkCalls < MaxCalls
    /\ LET g == generate_meeting_minutes(model, last_error, response)
       IN /\ last_error' = g.last_error
          /\ networkCalls' = networkCalls + g.calls
          /\ result' = OpResult("generate", g.ret, g.calls, JStr(transcript), response)
    /\ UNCHANGED << env_key, constructed, constructedWith, model >>

-----------------------------------------------------------------------------
(* gemini_node.py: text extraction; gemini_app.py: the Streamlit script *)

TextPlain ==
    << "t", "e", "x", "t", "/", "p", "l", "a", "i", "n" >>
ApplicationPdf ==
    << "a", "p", "p", "l", "i", "c", "a", "t", "i", "o", "n", "/", "p", "d", "f" >>
WordprocessingMl ==
    << "w", "o", "r", "d", "p", "r", "o", "c", "e", "s", "s", "i", "n", "g", "m", "l" >>
DocxType ==
    << "a", "p", "p", "l", "i", "c", "a", "t", "i", "o", "n", "/", "v", "n", "d", ".", "o",
       "p", "e", "n", "x", "m", "l", "f", "o", "r", "m", "a", "t", "s", "-", "o", "f", "f",
       "i", "c", "e", "d", "o", "c", "u", "m", "e", "n", "t", ".", "w", "o", "r", "d", "p",
       "r", "o", "c", "e", "s", "s", "i", "n", "g", "m", "l", ".", "d", "o", "c", "u", "m",
       "e", "n", "t" >>
OctetStream ==
    << "a", "p", "p", "l", "i", "c", "a", "t", "i", "o", "n", "/", "o", "c", "t", "e", "t",
       "-", "s", "t", "r", "e", "a", "m" >>

\* a byte that is no valid UTF-8
BadByte == "0xFF"

\* bytes.decode("utf-8", errors="ignore"): a byte sequence is the characters
\* it encodes, with undecodable bytes between them
RECURSIVE decode_utf8_ignore(_)
decode_utf8_ignore(bytes) ==
    IF Len(bytes) = 0 THEN << >>
    ELSE (IF Head(bytes) = BadByte THEN << >> ELSE << Head(bytes) >>)
         \o decode_utf8_ignore(Tail(bytes))

\* An uploaded file: its media type, its bytes (plain text), whether the
\* document library fails on it, and what the library finds in it (the text
\* of each PDF page, None or a text; the text of each DOCX paragraph).
UploadedFile(type, bytes, corrupt, parts) ==
    [type |-> type, bytes |-> bytes, corrupt |-> corrupt, parts |-> parts]

\* page.extract_text() for page in reader.pages if page.extract_text()
RECURSIVE PageTexts(_)
PageTexts(pages) ==
    IF Len(pages) = 0 THEN << >>
    ELSE (IF Truthy(Head(pages)) THEN << PyStr(Head(pages)) >> ELSE << >>)
         \o PageTexts(Tail(pages))

\* extract_text_from_pdf
extract_text_from_pdf(file) ==
    IF file.corrupt THEN << >> ELSE Join(<< "\n", "\n" >>, PageTexts(file.parts))

\* p.text for p in doc.paragraphs if p.text.strip()
RECURSIVE ParagraphTexts(_)
ParagraphTexts(paragraphs) ==
    IF Len(paragraphs) = 0 THEN << >>
    ELSE (IF Len(Strip(PyStr(Head(paragraphs)))) > 0
          THEN << PyStr(Head(paragraphs)) >> ELSE << >>)
         \o ParagraphTexts(Tail(paragraphs))

\* extract_text_from_docx
extract_text_from_docx(file) ==
    IF file.corrupt THEN << >> ELSE Join(<< "\n" >>, ParagraphTexts(file.parts))

\* lines 69-75: the text read from the uploaded file
read_uploaded(file) ==
    IF file.type = TextPlain THEN decode_utf8_ignore(file.bytes)
    ELSE IF file.type = ApplicationPdf THEN extract_text_from_pdf(file)
    ELSE IF Contains(file.type, WordprocessingMl) THEN extract_text_from_docx(file)
    ELSE << >>

\* the selection falling back to the pasted text when the file gives nothing
choose_transcript_with_fallback(file, pasted) ==
    IF file # None /\ Len(read_uploaded(file)) > 0 THEN read_uploaded(file)
    ELSE IF Len(Strip(pasted)) > 0 THEN Strip(pasted)
    ELSE << >>

\* lines 67-82: final_transcript
choose_transcript(file, pasted) ==
    IF file # None THEN read_uploaded(file)
    ELSE IF Len(Strip(pasted)) > 0 THEN Strip(pasted)
    ELSE << >>

\* line 86: st.button(..., disabled=not final_transcript) is true in the run
\* that follows a click, and a disabled button cannot be clicked
button(click, transcript) == click /\ Len(transcript) > 0

\* the failure test comparing the summary with the whole fallback summary
is_failure_by_equality(minutesDict) ==
    PyStr(Get(minutesDict, KeySummary, JStr(<< >>))) = FallbackSummary

\* line 90: "Could not automatically generate minutes" in minutes.get("summary", "")
is_failure(minutesDict) ==
    Contains(PyStr(Get(minutesDict, KeySummary, JStr(<< >>))), FailureMarker)

\* line 91: the error text shown
error_text(lastError) == PyStr(PyOr(lastError, JStr(NoErrorText)))

\* the success branch leaving the session record as it was
stored_after_unchanged(stored, minutesDict) == stored

\* lines 90-95: st.session_state.minutes after the test
stored_after(stored, minutesDict) ==
    IF is_failure(minutesDict) THEN stored ELSE minutesDict

\* inputs of a script run
Bytes_hi == << "h", "i" >>
FileChoices ==
    << None,
       UploadedFile(TextPlain, Bytes_hi, FALSE, << >>),
       UploadedFile(TextPlain, << BadByte, BadByte >>, FALSE, << >>),
       UploadedFile(TextPlain, << " ", BadByte >>, FALSE, << >>),
       UploadedFile(ApplicationPdf, << >>, TRUE, << >>),
       UploadedFile(ApplicationPdf, << >>, FALSE, << JStr(<< >>), None >>),
       UploadedFile(ApplicationPdf, << >>, FALSE,
                    << JStr(Text_Leo), JStr(<< >>), JStr(Text_Q4) >>),
       UploadedFile(DocxType, << >>, TRUE, << >>),
       UploadedFile(DocxType, << >>, FALSE, << JStr(<< " " >>), JStr(<< >>) >>),
       UploadedFile(DocxType, << >>, FALSE, << JStr(Text_Leo), JStr(<< " " >>), JStr(Text_k) >>),
       UploadedFile(OctetStream, Bytes_hi, FALSE, << JStr(Text_Leo) >>) >>

PastedChoices == << << >>, << " ", "\n" >>, << " ", "y", "o", " " >> >>

\* replies of the remote model met by the script
AppResponses ==
    { Response(Returned(None), Returned(JsonBody(MinutesPlan)), CandidateShapes[2]),
      Response(Returned(None), Returned(JsonBody(MinutesQ4)), CandidateShapes[2]),
      Response(Returned(None), Returned(JsonBody(MinutesQuoting)), CandidateShapes[2]),
      Response(Raised(Text_timeout), Returned(NotJson), << >>),
      Response(Returned(None), Raised(Text_blocked), CandidateShapes[2]) }

Sessions == DOMAIN pc

\* requests between their button and their call
Pending == { s \in Sessions : pc[s] = "call" }

\* Lines 39-86 of a run of the script in session s, and lines 97-141 when the
\* button is not pressed.  The client comes from the cache shared by all
\* sessions and is constructed by the first run that needs it.
BeginRun(s, file, pasted, click, configure) ==
    /\ pc[s] = "idle"
    /\ LET client == IF constructed
                     THEN [model |-> model, last_error |-> last_error]
                     ELSE client_init(None, env_key, configure)
           stopped == \/ ~Truthy(env_key)
                      \/ ~test_connection(client.model, client.last_error)[1]
           transcript == choose_transcript(file, pasted)
           pressed == ~stopped /\ button(click, transcript)
       IN /\ IF Truthy(env_key)
             THEN /\ constructed' = TRUE
                  /\ constructedWith' =
                        IF constructed THEN constructedWith
                        ELSE [api_key |-> None, configure |-> configure]
                  /\ model' = client.model
                  /\ last_error' = client.last_error
             ELSE UNCHANGED << constructed, constructedWith, model, last_error >>
          /\ pressed => networkCalls + Cardinality(Pending) < MaxCalls
          /\ uploaded' = [uploaded EXCEPT ![s] =
                            [file |-> file, pasted |-> pasted, click |-> click,
                             stopped |-> stopped, pressed |-> pressed]]
          /\ final_transcript' = [final_transcript EXCEPT ![s] =
                                     IF stopped THEN << >> ELSE transcript]
          /\ pc' = [pc EXCEPT ![s] = IF pressed THEN "call" ELSE "idle"]
          /\ shown' = [shown EXCEPT ![s] =
                          IF stopped \/ pressed THEN None ELSE session_state[s]]
    /\ UNCHANGED << env_key, networkCalls, result, minutes, written, reported,
                    session_state >>

\* line 88: the call of the shared client
CallGenerate(s, response) ==
    /\ pc[s] = "call"
    /\ GenerateMeetingMinutes(final_transcript[s], response)
    /\ minutes' = [minutes EXCEPT ![s] = result'.ret.value]
    /\ written' = [written EXCEPT ![s] =
                      IF last_error' # last_error \/ response.call.raised
                         \/ response.text.raised
                      THEN last_error' ELSE None]
    /\ pc' = [pc EXCEPT ![s] = "report"]
    /\ UNCHANGED << final_transcript, uploaded, reported, session_state, shown >>

\* lines 90-141: the failure test, the message, the session record, the view
Report(s) ==
    /\ pc[s] = "report"
    /\ reported' = [reported EXCEPT ![s] =
                       [failed |-> is_failure(minutes[s]),
                        error |-> IF is_failure(minutes[s])
                                  THEN JStr(error_text(last_error)) ELSE None,
                        record |-> minutes[s],
                        previous |-> session_state[s]]]
    /\ session_state' = [session_state EXCEPT ![s] = stored_after(@, minutes[s])]
    /\ shown' = [shown EXCEPT ![s] = session_state'[s]]
    /\ pc' = [pc EXCEPT ![s] = "idle"]
    /\ UNCHANGED << clientVars, final_transcript, uploaded, minutes, written >>

-----------------------------------------------------------------------------
(* The pure functions on bounded inputs *)

\* longest participants list tried
MaxItems == 3

Text_AnaPM == << " ", " ", "A", "n", "a", " ", "(", "P", "M", ")", " ", " " >>
Text_Team ==
    << " ", " ", "T", "e", "a", "m", " ", "a", "l", "i", "g", "n", "e", "d", " ", "o", "n",
       " ", "Q", "3", " ", "p", "l", "a", "n", ".", " ", " " >>
Text_TwoLines == << "a", "\n", "b", " " >>
Text_Blank == << " ", "\t" >>
Text_x == << " ", "x", " " >>
Text_z == << "z" >>
Text_extra == << "e", "x", "t", "r", "a" >>

\* a field of the raw object: missing, or present with a value
Missing == [present |-> FALSE, v |-> None]
Present(v) == [present |-> TRUE, v |-> v]

\* elements of the participants list
Elements == { JStr(<< >>), JStr(Text_AnaPM), JStr(Text_Leo), JNull, JStr(Text_Blank) }

ParticipantLists == UNION { [1..n -> Elements] : n \in 0..MaxItems }

\* values of participants that are no list
NonLists ==
    << JNull, JNum(<< "7" >>), JBool(TRUE), JStr(<< " ", "a", "b" >>),
       JObj(<< Pair(Text_k, JNum(<< "1" >>)), Pair(Text_Blank, JNull) >>) >>

SummaryOptions ==
    << Missing, Present(JStr(<< >>)), Present(JStr(<< " ", "\n", " " >>)),
       Present(JStr(Text_Team)), Present(JNull), Present(JNum(<< "4", "2" >>)),
       Present(JStr(FallbackSummary)), Present(JStr(Text_TwoLines)) >>

\* discussion_points, outcomes_or_decisions and next_steps together
RestOptions ==
    << << Missing, Missing, Missing >>,
       << Present(JList(<< JStr(Text_x), JNum(<< "5" >>) >>)), Present(JList(<< >>)),
          Present(JList(<< JStr(Text_z) >>)) >>,
       << Present(JNull), Missing, Present(JList(<< JStr(Text_z) >>)) >>,
       << Missing, Present(JStr(<< "h", "i" >>)), Present(JObj(<< Pair(Text_k, JNull) >>)) >>,
       << Present(JList(<< >>)), Present(JList(<< JStr(Text_Blank), JStr(<< >>) >>)),
          Present(JList(<< JList(<< JStr(Text_z) >>), JBool(FALSE) >>)) >> >>

Field(key, option) == IF option.present THEN << Pair(key, option.v) >> ELSE << >>

RawObject(summary, participants, rest, extra) ==
    JObj(Field(Text_extra, extra) \o Field(KeySummary, summary)
         \o Field(KeyParticipants, participants)
         \o Field(KeyDiscussionPoints, rest[1]) \o Field(KeyOutcomes, rest[2])
         \o Field(KeyNextSteps, rest[3]))

\* parsed JSON that is no object
NonObjects == << JList(<< JStr(Text_Leo) >>), JStr(Text_Leo), JNull, JNum(<< "4", "2" >>) >>

PureInit ==
    \/ \E i \in 1..Len(NonObjects) : raw = NonObjects[i]
    \/ \E s \in 1..Len(SummaryOptions), r \in 1..Len(RestOptions),
          extra \in { Missing, Present(JStr(Text_Leo)) } :
          \/ \E l \in ParticipantLists :
                raw = RawObject(SummaryOptions[s], Present(JList(l)), RestOptions[r], extra)
          \/ \E n \in 1..Len(NonLists) :
                raw = RawObject(SummaryOptions[s], Present(NonLists[n]), RestOptions[r], extra)
          \/ raw = RawObject(SummaryOptions[s], Missing, RestOptions[r], extra)

\* the list fields of a dict can all be iterated
ListsIterable(d) ==
    \A i \in 1..Len(ListKeys) : Iterable(Get(d, ListKeys[i], JList(<< >>)))

\* _clean_minutes(raw)
ApplyClean ==
    /\ cleaned = None
    /\ markdown = None
    /\ cleaned' = clean_minutes(raw)
    /\ UNCHANGED << raw, recleaned, markdown >>

\* _clean_minutes on its own result
ApplyCleanAgain ==
    /\ cleaned # None
    /\ ~cleaned.raised
    /\ recleaned = None
    /\ recleaned' = clean_minutes(cleaned.value)
    /\ UNCHANGED << raw, cleaned, markdown >>

\* format_minutes_as_markdown on the cleaned record
ExportCleaned ==
    /\ recleaned # None
    /\ markdown = None
    /\ markdown' = [of |-> cleaned.value, text |-> format_minutes_as_markdown(cleaned.value)]
    /\ UNCHANGED << raw, cleaned, recleaned >>

\* format_minutes_as_markdown on the raw dict itself
ExportRaw ==
    /\ cleaned = None
    /\ markdown = None
    /\ raw.t = "obj"
    /\ ListsIterable(raw)
    /\ markdown' = [of |-> raw, text |-> format_minutes_as_markdown(raw)]
    /\ UNCHANGED << raw, cleaned, recleaned >>

-----------------------------------------------------------------------------
(* Specifications *)

NoSessions == << >>

PureIdle ==
    /\ raw = None
    /\ cleaned = None
    /\ recleaned = None
    /\ markdown = None

AppIdle ==
    /\ pc = NoSessions
    /\ final_transcript = NoSessions
    /\ uploaded = NoSessions
    /\ minutes = NoSessions
    /\ written = NoSessions
    /\ reported = NoSessions
    /\ session_state = NoSessions
    /\ shown = NoSessions

ClientNew ==
    /\ constructed = FALSE
    /\ constructedWith = None
    /\ model = FALSE
    /\ last_error = None
    /\ networkCalls = 0
    /\ result = None

\* the client, used directly: any key in the environment, any argument
Init ==
    /\ \E i \in 1..Len(KeyChoices) : env_key = KeyChoices[i]
    /\ ClientNew
    /\ PureIdle
    /\ AppIdle

Next ==
    \/ \E i \in 1..Len(KeyChoices), j \in 1..Len(ConfigureOutcomes) :
          /\ Construct(KeyChoices[i], ConfigureOutcomes[j])
          /\ UNCHANGED << pureVars, appVars >>
    \/ /\ TestConnection
       /\ UNCHANGED << pureVars, appVars >>
    \/ \E i \in 1..Len(Transcripts), r \in Responses :
          /\ GenerateMeetingMinutes(Transcripts[i], r)
          /\ UNCHANGED << pureVars, appVars >>

Spec == Init /\ [][Next]_vars

\* the pure functions, applied to every raw value of the bounded inputs
InitPure ==
    /\ PureInit
    /\ cleaned = None
    /\ recleaned = None
    /\ markdown = None
    /\ env_key = None
    /\ ClientNew
    /\ AppIdle

NextPure ==
    \/ /\ ApplyClean
       /\ UNCHANGED << clientVars, appVars >>
    \/ /\ ApplyCleanAgain
       /\ UNCHANGED << clientVars, appVars >>
    \/ /\ ExportCleaned
       /\ UNCHANGED << clientVars, appVars >>
    \/ /\ ExportRaw
       /\ UNCHANGED << clientVars, appVars >>

SpecPure == InitPure /\ [][NextPure]_vars

SessionsIdle(S) ==
    /\ pc = [s \in S |-> "idle"]
    /\ final_transcript = [s \in S |-> << >>]
    /\ uploaded = [s \in S |-> None]
    /\ minutes = [s \in S |-> None]
    /\ written = [s \in S |-> None]
    /\ reported = [s \in S |-> None]
    /\ session_state = [s \in S |-> None]
    /\ shown = [s \in S |-> None]

\* one browser session running the script
InitApp ==
    /\ \E i \in 1..Len(KeyChoices) : env_key = KeyChoices[i]
    /\ ClientNew
    /\ PureIdle
    /\ SessionsIdle({ 1 })

NextApp ==
    \/ \E s \in Sessions, f \in 1..Len(FileChoices), p \in 1..Len(PastedChoices),
          click \in BOOLEAN,
          c \in 1..(IF constructed THEN 1 ELSE Len(ConfigureOutcomes)) :
          /\ BeginRun(s, FileChoices[f], PastedChoices[p], click, ConfigureOutcomes[c])
          /\ UNCHANGED pureVars
    \/ \E s \in Sessions, r \in AppResponses :
          /\ CallGenerate(s, r)
          /\ UNCHANGED pureVars
    \/ \E s \in Sessions :
          /\ Report(s)
          /\ UNCHANGED pureVars

SpecApp == InitApp /\ [][NextApp]_vars

\* two browser sessions, each in its own script thread, sharing the cached
\* client; the threads interleave at the call of the client and at its return
InitShared ==
    /\ env_key = JStr(Text_k)
    /\ ClientNew
    /\ PureIdle
    /\ SessionsIdle({ 1, 2 })

NextShared ==
    \/ \E s \in Sessions, f \in 1..2, click \in BOOLEAN :
          /\ BeginRun(s, FileChoices[f], PastedChoices[3], click, ConfigureOutcomes[1])
          /\ UNCHANGED pureVars
    \/ \E s \in Sessions, r \in AppResponses :
          /\ CallGenerate(s, r)
          /\ UNCHANGED pureVars
    \/ \E s \in Sessions :
          /\ Report(s)
          /\ UNCHANGED pureVars

SpecShared == InitShared /\ [][NextShared]_vars

-----------------------------------------------------------------------------
(* Claims about the client (specification Spec) *)

HasText(v) == v.t = "str" /\ Len(v.v) > 0

\* __init__ was given a key, by argument or by the environment
CredentialResolved == HasText(constructedWith.api_key) \/ HasText(env_key)

ConfigurationFailed == CredentialResolved /\ constructedWith.configure.raised

\* the record is exactly the fallback record: the five keys, the fallback
\* summary, four empty lists
IsFallbackRecord(rec) ==
    /\ rec.t = "obj"
    /\ Len(rec.v) = 5
    /\ {rec.v[i].k : i \in 1..5} =
          {KeySummary, KeyParticipants, KeyDiscussionPoints, KeyOutcomes, KeyNextSteps}
    /\ Get(rec, KeySummary, None) = JStr(FallbackSummary)
    /\ \A i \in 1..Len(ListKeys) : Get(rec, ListKeys[i], None) = JList(<< >>)

\* a reply with which the remote call fails: a transport error, a blocked
\* reply, a body that is no JSON, JSON that is no object, or an object with a
\* list field that cannot be iterated
FailingReply(r) ==
    \/ r.call.raised
    \/ r.text.raised
    \/ ~r.text.value.json
    \/ r.text.value.value.t # "obj"
    \/ \E i \in 1..Len(ListKeys) :
          /\ HasKey(r.text.value.value, ListKeys[i])
          /\ Get(r.text.value.value, ListKeys[i], None).t \in {"null", "num", "bool"}

GenerateDone == constructed /\ result.op = "generate"

\* C1: on an initialized client, whenever the remote call fails in any of the
\* listed ways, generate_meeting_minutes raises nothing, returns exactly the
\* fallback record, and leaves a last_error that contains "API call failed",
\* also when reading the finish reason and safety ratings fails.
C1_GenerateTotalOnFailure ==
    (GenerateDone /\ model /\ FailingReply(result.response)) =>
        /\ ~result.ret.raised
        /\ IsFallbackRecord(result.ret.value)
        /\ last_error # None
        /\ Len(last_error.v) > 0
        /\ Contains(last_error.v, ApiCallFailed)

\* a generation that failed inside cleaning has completed
C1_Witness ==
    /\ GenerateDone
    /\ model
    /\ ~result.response.call.raised
    /\ ~result.response.text.raised
    /\ result.response.text.value = JsonBody(MinutesNullList)

\* C2: with an uninitialized handle (no credential, or a configuration failure
\* at construction) generate_meeting_minutes returns exactly the fallback
\* record for every transcript, and no remote call is made, then or earlier.
C2_UninitializedReturnsFallback ==
    (GenerateDone /\ (~CredentialResolved \/ ConfigurationFailed)) =>
        /\ ~result.ret.raised
        /\ IsFallbackRecord(result.ret.value)
        /\ result.calls = 0
        /\ networkCalls = 0

\* a generation on a client whose configuration failed, with a real transcript
C2_Witness ==
    /\ GenerateDone
    /\ ConfigurationFailed
    /\ Len(result.transcript.v) > 0
    /\ ~FailingReply(result.response)

\* C5 as stated: test_connection answers (true, configured) whenever a
\* credential was resolved, (false, _) whenever none was, and __init__ raises
\* nothing.
C5_AsStated ==
    /\ (constructed /\ result.op = "init") => ~result.ret.raised
    /\ (constructed /\ result.op = "test_connection") =>
          IF CredentialResolved
          THEN result.ret.value = << TRUE, ConfiguredMessage >>
          ELSE result.ret.value[1] = FALSE

\* C5, amended: __init__ raises nothing; test_connection answers (false,
\* message) when no credential was resolved or the configuration step raised,
\* and (true, configured) when a credential was resolved and configuration
\* succeeded; the answer is fixed by construction, whatever generations came
\* between.
C5_TestConnectionReflectsConstruction ==
    /\ (constructed /\ result.op = "init") => ~result.ret.raised
    /\ (constructed /\ result.op = "test_connection") =>
          IF ~CredentialResolved
          THEN result.ret.value = << FALSE, MissingKeyError >>
          ELSE IF constructedWith.configure.raised
          THEN result.ret.value =
                  << FALSE, ConfigureFailedPrefix \o constructedWith.configure.value.v >>
          ELSE result.ret.value = << TRUE, ConfiguredMessage >>

\* test_connection asked after a failed generation on a configured client
C5_Witness ==
    /\ constructed
    /\ result.op = "test_connection"
    /\ CredentialResolved
    /\ networkCalls > 0
    /\ last_error # None
    /\ Contains(last_error.v, ApiCallFailed)

-----------------------------------------------------------------------------
(* Claims about cleaning and markdown export (specification SpecPure) *)

CleanDone == cleaned # None

Blank(s) == \A i \in 1..Len(s) : s[i] \in Whitespace

\* t is s without its leading and trailing whitespace
IsTrimOf(t, s) ==
    \E i \in 0..Len(s) : \E j \in i..Len(s) :
        /\ t = SubSeq(s, i + 1, j)
        /\ \A k \in 1..i : s[k] \in Whitespace
        /\ \A k \in (j + 1)..Len(s) : s[k] \in Whitespace
        /\ Len(t) > 0 => (t[1] \notin Whitespace /\ t[Len(t)] \notin Whitespace)

\* out is the list of the non-blank elements of in, stringified and trimmed,
\* in their original order
IsCleanedListOf(out, in) ==
    LET kept == { i \in 1..Len(in) : ~Blank(PyStr(in[i])) }
    IN /\ Len(out) = Cardinality(kept)
       /\ \A i \in kept :
             LET j == Cardinality({ k \in kept : k <= i })
             IN out[j].t = "str" /\ IsTrimOf(out[j].v, PyStr(in[i]))

FiveKeys(rec) ==
    /\ rec.t = "obj"
    /\ Len(rec.v) = 5
    /\ rec.v[1].k = KeySummary
    /\ \A i \in 1..4 : rec.v[i + 1].k = ListKeys[i]

\* C3: for every parsed JSON object, whatever the types of its values,
\* _clean_minutes raises nothing and returns a record with a non-empty summary
\* and no empty or whitespace-only entry in any of its four lists.
C3_CleanNeverRaises ==
    (CleanDone /\ raw.t = "obj") =>
        /\ ~cleaned.raised
        /\ Len(Get(cleaned.value, KeySummary, JStr(<< >>)).v) > 0
        /\ \A i \in 1..Len(ListKeys) :
              LET l == Get(cleaned.value, ListKeys[i], JList(<< >>)).v
              IN \A j \in 1..Len(l) : ~Blank(l[j].v)

\* every list field of the raw object is missing or a list
ListsAreLists(d) ==
    \A i \in 1..Len(ListKeys) : Get(d, ListKeys[i], JList(<< >>)).t = "list"

\* C4: on an object whose list fields are lists or missing, _clean_minutes
\* returns the five keys; each list is the input list with every element
\* stringified and trimmed, blanks dropped, order kept (missing: empty); the
\* summary is the trimmed text of the input or "No summary available." when
\* that is empty; other keys are ignored; so the empty object gives the
\* placeholder with four empty lists, and cleaning a cleaned record changes
\* nothing.
C4_CleanComputesTrimmedLists ==
    /\ (CleanDone /\ raw.t = "obj" /\ ListsAreLists(raw)) =>
          /\ ~cleaned.raised
          /\ FiveKeys(cleaned.value)
          /\ \A i \in 1..Len(ListKeys) :
                /\ cleaned.value.v[i + 1].v.t = "list"
                /\ IsCleanedListOf(cleaned.value.v[i + 1].v.v,
                                   Get(raw, ListKeys[i], JList(<< >>)).v)
          /\ LET given == PyStr(Get(raw, KeySummary, JStr(<< >>)))
                 summary == cleaned.value.v[1].v
             IN /\ summary.t = "str"
                /\ IF Blank(given) THEN summary.v = NoSummary
                   ELSE IsTrimOf(summary.v, given)
    /\ (CleanDone /\ raw = JObj(<< >>)) =>
          cleaned = Returned(JObj(<< Pair(KeySummary, JStr(NoSummary)),
                                      Pair(KeyParticipants, JList(<< >>)),
                                      Pair(KeyDiscussionPoints, JList(<< >>)),
                                      Pair(KeyOutcomes, JList(<< >>)),
                                      Pair(KeyNextSteps, JList(<< >>)) >>))
    /\ recleaned # None => recleaned = cleaned

\* the example of the specification, cleaned once and again: a padded
\* summary, a participants list with a padded, an empty and a plain name
C4_Witness ==
    /\ recleaned # None
    /\ Get(raw, KeySummary, None) = JStr(Text_Team)
    /\ Get(raw, KeyParticipants, None)
          = JList(<< JStr(Text_AnaPM), JStr(<< >>), JStr(Text_Leo) >>)
    /\ HasKey(raw, Text_extra)
    /\ Get(cleaned.value, KeyParticipants, None)
          = JList(<< JStr(<< "A", "n", "a", " ", "(", "P", "M", ")" >>), JStr(Text_Leo) >>)

\* text.split("\n")
RECURSIVE Lines(_)
Lines(text) ==
    IF \A i \in 1..Len(text) : text[i] # "\n" THEN << text >>
    ELSE LET n == CHOOSE i \in 1..Len(text) :
                      text[i] = "\n" /\ \A k \in 1..(i - 1) : text[k] # "\n"
         IN << SubSeq(text, 1, n - 1) >> \o Lines(SubSeq(text, n + 1, Len(text)))

Headers ==
    << HeaderSummary, HeaderParticipants, HeaderDiscussionPoints, HeaderOutcomes,
       HeaderNextSteps >>
FieldKeys == << KeySummary >> \o ListKeys

\* the lines a field contributes: the summary prose, or one bullet per item
ContentLines(rec, f) ==
    IF f = 1 THEN (IF Truthy(Get(rec, KeySummary, JStr(<< >>)))
                   THEN Lines(PyStr(Get(rec, KeySummary, JStr(<< >>))))
                   ELSE << >>)
    ELSE LET items == PyIter(Get(rec, FieldKeys[f], JList(<< >>)))
         IN [i \in 1..Len(items) |-> << "-", " " >> \o PyStr(items[i])]

NonEmptyFields(rec) == { f \in 1..5 : Len(ContentLines(rec, f)) > 0 }

\* position of the header line of field f in the lines of the document
HeaderLine(lines, f) == { i \in 1..Len(lines) : lines[i] = Headers[f] }

\* C6: the markdown document has one section per non-empty field and none for
\* an empty one, in the order Summary, Participants, Discussion Points,
\* Outcomes or Decisions, Next Steps; a section is its header line followed by
\* the summary prose or one "- " bullet per item; a blank line, and only that,
\* separates two sections.
C6_MarkdownSections ==
    markdown # None =>
        LET lines == Lines(markdown.text)
            rec == markdown.of
            shownFields == NonEmptyFields(rec)
        IN /\ Cardinality({ i \in 1..Len(lines) : \E f \in 1..5 : lines[i] = Headers[f] })
                 = Cardinality(shownFields)
           /\ \A f \in 1..5 :
                 IF f \in shownFields
                 THEN /\ Cardinality(HeaderLine(lines, f)) = 1
                      /\ LET h == CHOOSE i \in HeaderLine(lines, f) : TRUE
                             body == ContentLines(rec, f)
                         IN /\ h + Len(body) <= Len(lines)
                            /\ SubSeq(lines, h + 1, h + Len(body)) = body
                            /\ h > 1 => lines[h - 1] = << >>
                            /\ \/ h + Len(body) = Len(lines)
                               \/ /\ lines[h + Len(body) + 1] = << >>
                                  /\ h + Len(body) + 2 <= Len(lines)
                                  /\ \E g \in shownFields :
                                        /\ g > f
                                        /\ lines[h + Len(body) + 2] = Headers[g]
                                        /\ \A m \in shownFields : m > f => m >= g
                 ELSE HeaderLine(lines, f) = { }
           /\ shownFields = { } => markdown.text = << >>
           /\ shownFields # { } =>
                 lines[1] = Headers[CHOOSE f \in shownFields : \A g \in shownFields : f <= g]

\* a record with an empty discussion_points list and three non-empty fields
\* has been exported
C6_Witness ==
    /\ markdown # None
    /\ HasKey(markdown.of, KeyDiscussionPoints)
    /\ NonEmptyFields(markdown.of) = { 1, 2, 5 }
    /\ Len(ContentLines(markdown.of, 2)) = 2

-----------------------------------------------------------------------------
(* Claims about the script (specifications SpecApp and SpecShared) *)

\* session s has completed a generation request and is between runs
RequestDone(s) == pc[s] = "idle" /\ reported[s] # None

SummaryOf(rec) == PyStr(Get(rec, KeySummary, JStr(<< >>)))

C8_AsStated ==
    \A s \in Sessions : RequestDone(s) => shown[s] = reported[s].record

\* C8, amended: after a successful generation request the record in the
\* review view is the one that request produced; after a failed one the view
\* keeps what it held before, the record of an earlier request or nothing.
C8_ViewAfterRequest ==
    \A s \in Sessions :
        RequestDone(s) =>
            /\ ~reported[s].failed => shown[s] = reported[s].record
            /\ reported[s].failed => shown[s] = reported[s].previous

\* a second successful request replaced the record of the first
C8_Witness ==
    \E s \in Sessions :
        /\ RequestDone(s)
        /\ ~reported[s].failed
        /\ reported[s].previous # None
        /\ reported[s].previous # reported[s].record
        /\ shown[s] = reported[s].record

\* C9: the error text a request reports after its own failed call is the
\* last_error that call wrote, never the one written by another request.
C9_ReportsOwnError ==
    \A s \in Sessions :
        (RequestDone(s) /\ written[s] # None) =>
            /\ reported[s].failed
            /\ reported[s].error = written[s]

\* text the run of session s reads from its uploaded file
Extracted(s) == read_uploaded(uploaded[s].file)

\* C10: the client is called only with a non-empty transcript; a run with an
\* uploaded file whose text comes out empty (failed extraction, nothing
\* decodable, unmatched media type) triggers no generation whatever was
\* pasted; the transcript is the file's text when a file is uploaded and the
\* trimmed pasted text only when none is.
C10_NoGenerationOnEmptyInput ==
    /\ (constructed /\ result # None /\ result.op = "generate") =>
          Len(result.transcript.v) > 0
    /\ \A s \in Sessions :
          /\ pc[s] # "idle" =>
                /\ uploaded[s].pressed
                /\ Len(final_transcript[s]) > 0
          /\ uploaded[s] # None =>
                /\ (uploaded[s].file # None /\ Len(Extracted(s)) = 0) =>
                      ~uploaded[s].pressed
                /\ uploaded[s].pressed =>
                      /\ uploaded[s].click
                      /\ final_transcript[s] =
                            IF uploaded[s].file # None THEN Extracted(s)
                            ELSE Strip(uploaded[s].pasted)

\* a run with a file that gave no text, pasted text present and the button
\* clicked has ended without a generation
C10_Witness ==
    \E s \in Sessions :
        /\ uploaded[s] # None
        /\ ~uploaded[s].stopped
        /\ uploaded[s].file # None
        /\ uploaded[s].file.type = ApplicationPdf
        /\ Len(Extracted(s)) = 0
        /\ Len(Strip(uploaded[s].pasted)) > 0
        /\ uploaded[s].click
        /\ pc[s] = "idle"
        /\ networkCalls = 0

====
